---- MODULE Spec2Model ----
(***************************************************************************)
(* The attendance dashboard front end, component by component.             *)
(*                                                                         *)
(* Attendance details of the agents page (AgentsManagement): the daily     *)
(* attendance record and the temporary exits of the selected agent and     *)
(* date are fetched from the backend, the four check-in/out times are      *)
(* classified against the agent's schedule (isLate, formatTimeWithStatus)  *)
(* and the day is summarised as an EvaluatedStatus.                        *)
(*                                                                         *)
(* Times of day travel as "HH:mm" strings.  A string is modelled as the    *)
(* sequence of its UTF-16 code units, the empty sequence standing for an   *)
(* absent (undefined or empty, both falsy) value, so that the comparisons  *)
(* and the concatenation of the source are computed as JavaScript does.    *)
(***************************************************************************)
EXTENDS Integers, Sequences, FiniteSets, TLC

VARIABLES
    backendAttendance,  \* the DAILY_ATTENDANCE row the API serves, times in minutes
    backendExits,       \* the TEMPORARY_ABSENCE rows the API serves
    isToday,            \* whether the selected date is the current date
    now,                \* the time of day, in minutes, of the evaluation
    loadingAttendance,  \* useState(false)
    dailyAttendance,    \* useState<DailyAttendanceDetails | null>(null)
    temporaryExits,     \* useState<TemporaryExit[]>([])
    evaluated           \* the EvaluatedStatus derived from the fetched record

\* WorkSchedules (the schedules page)
VARIABLES
    schedules,          \* useState<WorkSchedule[]>([]): the ids of the listed schedules
    newSchedule,        \* the form of the add dialog
    isAddDialogOpen,    \* useState(false)
    editingSchedule,    \* useState<WorkSchedule | null>(null): the form of the edit dialog
    scheduleRequest,    \* the createSchedule / updateSchedule call being awaited
    scheduleToast,      \* the last toast of the schedules page
    localStorage,       \* the browser's storage: the session entry and the two tokens
    location,           \* window.location.href
    fetchPc,            \* where the running fetchWithAuth call stands
    fetchSent,          \* the Authorization tokens of the requests the call has sent
    fetchFirst,         \* the first response of the call
    refreshOutcome,     \* what the refresh of the call met
    fetchResult,        \* what the call returned or threw
    apiState,           \* the state of useApi: data, loading, error
    apiPending,         \* the arguments of the calls of execute still awaited
    apiReturned,        \* what the call of execute that ended last resolved to
    value,              \* the input of useDebounce
    debouncedValue,     \* the state of useDebounce
    handler,            \* the pending timeout of useDebounce
    unchangedFor,       \* the ticks since the input changed last
    currentUser,        \* AuthProvider: the logged-in user, or null
    isLoading,          \* AuthProvider: the stored session is not read yet
    pathname,           \* the router's location
    sessionFrom,        \* how the current session began: login or restore
    passwordDialogUser,   \* Settings: the user of the password dialog, or null
    revealedPassword,     \* Settings: the password fetched by the reveal, or null
    showPassword,         \* Settings: the password is displayed in clear
    passwordRevealTimer,  \* Settings: the seconds left of the reveal
    revealTimeout,        \* the pending one-second timeout of the effect
    sinceReveal,          \* the time since the last reveal
    open,                 \* ConfirmDialog: the open state its parent holds
    hasOnCancel,          \* ConfirmDialog: the parent passed onCancel
    confirmPending,       \* the onConfirm callbacks handleConfirm is awaiting
    confirmClicks,        \* the clicks on the confirm button
    onConfirmCalls,       \* the invocations of onConfirm
    confirmFinished,      \* the invocations of onConfirm that have ended
    closedAfterConfirm,   \* the onOpenChange(false) of handleConfirm
    cancelClicks,         \* the clicks on the cancel button
    onCancelCalls,        \* the invocations of onCancel
    closedAfterCancel     \* the onOpenChange(false) of handleCancel

attendanceVars == <<backendAttendance, backendExits, isToday, now,
                    loadingAttendance, dailyAttendance, temporaryExits, evaluated>>

scheduleVars == <<schedules, newSchedule, isAddDialogOpen, editingSchedule,
                  scheduleRequest, scheduleToast>>

storageVars == <<localStorage, location>>

fetchVars == <<fetchPc, fetchSent, fetchFirst, refreshOutcome, fetchResult>>

apiVars == <<apiState, apiPending, apiReturned>>

debounceVars == <<value, debouncedValue, handler, unchangedFor>>

authVars == <<currentUser, isLoading, pathname, sessionFrom>>

passwordVars ==
    <<passwordDialogUser, revealedPassword, showPassword, passwordRevealTimer,
      revealTimeout, sinceReveal>>

confirmVars ==
    <<open, hasOnCancel, confirmPending, confirmClicks, onConfirmCalls,
      confirmFinished, closedAfterConfirm, cancelClicks, onCancelCalls,
      closedAfterCancel>>

vars == <<attendanceVars, scheduleVars, storageVars, fetchVars, apiVars, debounceVars,
          authVars, passwordVars, confirmVars>>

\* What the steps of one component leave alone.
NotAttendance ==
    <<scheduleVars, storageVars, fetchVars, apiVars, debounceVars, authVars,
      passwordVars, confirmVars>>

NotSchedules  ==
    <<attendanceVars, storageVars, fetchVars, apiVars, debounceVars, authVars,
      passwordVars, confirmVars>>

NotFetch ==
    <<attendanceVars, scheduleVars, apiVars, debounceVars, authVars,
      passwordVars, confirmVars>>

NotApi ==
    <<attendanceVars, scheduleVars, storageVars, fetchVars, debounceVars, authVars,
      passwordVars, confirmVars>>

NotDebounce ==
    <<attendanceVars, scheduleVars, storageVars, fetchVars, apiVars, authVars,
      passwordVars, confirmVars>>

NotAuth ==
    <<attendanceVars, scheduleVars, fetchVars, apiVars, debounceVars,
      passwordVars, confirmVars>>

NotPassword ==
    <<attendanceVars, scheduleVars, storageVars, fetchVars, apiVars, debounceVars,
      authVars, confirmVars>>

NotConfirm ==
    <<attendanceVars, scheduleVars, storageVars, fetchVars, apiVars, debounceVars,
      authVars, passwordVars>>

-----------------------------------------------------------------------------
(* Bounds and input sets *)

MaxExits == 1

HM(h, m) == h * 60 + m

\* An optional minute value: <<>> (absent) or <<t>>.
Opt(S) == {<<>>} \cup {<<t>> : t \in S}

Schedules ==
    { [entree_matin |-> HM(9, 0), sortie_matin |-> HM(12, 0),
       entree_aprem |-> HM(13, 0), sortie_aprem |-> HM(17, 0), tolerance |-> 15],
      [entree_matin |-> HM(9, 0), sortie_matin |-> HM(12, 0),
       entree_aprem |-> HM(13, 0), sortie_aprem |-> HM(17, 0), tolerance |-> 0],
      [entree_matin |-> HM(8, 50), sortie_matin |-> HM(12, 0),
       entree_aprem |-> HM(12, 0), sortie_aprem |-> HM(16, 45), tolerance |-> 25] }

MorningIns    == Opt({HM(8, 50), HM(9, 0), HM(9, 10), HM(9, 15), HM(9, 16), HM(9, 20)})
MorningOuts   == Opt({HM(9, 5), HM(11, 59), HM(12, 0)})
AfternoonIns  == Opt({HM(13, 0), HM(13, 16)})
AfternoonOuts == Opt({HM(12, 30), HM(16, 45), HM(17, 0), HM(17, 10)})

ExitChoices ==
    { [exitTime |-> HM(10, 0), returnTime |-> <<HM(10, 30)>>],
      [exitTime |-> HM(14, 0), returnTime |-> <<>>],
      [exitTime |-> HM(18, 0), returnTime |-> <<HM(18, 30)>>] }

NowChoices == {HM(14, 20), HM(15, 0)}

BackendRecords ==
    { [morningCheckIn |-> mi, morningCheckOut |-> mo,
       afternoonCheckIn |-> ai, afternoonCheckOut |-> ao,
       schedule |-> s, conge |-> c] :
        mi \in MorningIns, mo \in MorningOuts, ai \in AfternoonIns,
        ao \in AfternoonOuts, s \in Schedules, c \in BOOLEAN }

\* The exits of a day, ordered by exit time.
BackendExitLists ==
    { q \in UNION { [1..n -> ExitChoices] : n \in 0..MaxExits } :
        \A i \in 1..(Len(q) - 1) : q[i].exitTime <= q[i + 1].exitTime }

-----------------------------------------------------------------------------
(* JavaScript strings *)

Min(a, b) == IF a < b THEN a ELSE b
Max(a, b) == IF a > b THEN a ELSE b

Digit(d) == 48 + d
Colon == <<58>>

\* String(n) of a non-negative integer.
RECURSIVE DecStr(_)
DecStr(n) == IF n < 10 THEN <<Digit(n)>> ELSE DecStr(n \div 10) \o <<Digit(n % 10)>>

\* "HH:mm" of a time of day in minutes.
HHmm(t) ==
    <<Digit((t \div 60) \div 10), Digit((t \div 60) % 10)>> \o Colon \o
    <<Digit((t % 60) \div 10), Digit((t % 60) % 10)>>

\* An optional time as the API serialises it: absent, or "HH:mm".
TimeField(o) == IF o = <<>> THEN <<>> ELSE HHmm(o[1])

\* a < b on strings: code unit by code unit, a proper prefix being smaller.
StrLess(a, b) ==
    \/ Len(a) < Len(b) /\ \A i \in 1..Len(a) : a[i] = b[i]
    \/ \E k \in 1..Min(Len(a), Len(b)) :
          a[k] < b[k] /\ \A i \in 1..(k - 1) : a[i] = b[i]

StrGreater(a, b) == StrLess(b, a)

\* !s of a string or undefined value.
Falsy(s) == s = <<>>

-----------------------------------------------------------------------------
(* The API response: the row as DailyAttendanceDetails / TemporaryExit[] *)

AttendanceResponse(b) ==
    [morningCheckIn    |-> TimeField(b.morningCheckIn),
     morningCheckOut   |-> TimeField(b.morningCheckOut),
     afternoonCheckIn  |-> TimeField(b.afternoonCheckIn),
     afternoonCheckOut |-> TimeField(b.afternoonCheckOut),
     entree_matin      |-> HHmm(b.schedule.entree_matin),
     sortie_matin      |-> HHmm(b.schedule.sortie_matin),
     entree_aprem      |-> HHmm(b.schedule.entree_aprem),
     sortie_aprem      |-> HHmm(b.schedule.sortie_aprem),
     tolerance         |-> DecStr(b.schedule.tolerance),
     conge             |-> b.conge]

ExitsResponse(q) ==
    [i \in 1..Len(q) |->
        [exitTime |-> HHmm(q[i].exitTime), returnTime |-> TimeField(q[i].returnTime)]]

-----------------------------------------------------------------------------
(* Per-field classification (AgentsManagement) *)

\* isLate: actualTime > (scheduledTime + tol), on strings.
isLate(actualTime, scheduledTime, tol) ==
    IF Falsy(actualTime) \/ Falsy(scheduledTime)
    THEN FALSE
    ELSE StrGreater(actualTime, scheduledTime \o tol)

\* formatTimeWithStatus with a departure at the scheduled end counted early
\* (<= for <).
formatTimeWithStatus_EarlyAtEnd(time, scheduledTime, type, tol) ==
    IF Falsy(time)
    THEN "absent"
    ELSE LET late  == IF type = "arrival" THEN isLate(time, scheduledTime, tol) ELSE FALSE
             early == IF type = "departure" /\ ~Falsy(scheduledTime)
                      THEN ~StrGreater(time, scheduledTime)
                      ELSE FALSE
         IN  IF late THEN "late" ELSE IF early THEN "early" ELSE "ontime"

\* formatTimeWithStatus without the guard on a missing time.
formatTimeWithStatus_NoAbsent(time, scheduledTime, type, tol) ==
    LET late  == IF type = "arrival" THEN isLate(time, scheduledTime, tol) ELSE FALSE
        early == IF type = "departure" /\ ~Falsy(scheduledTime)
                 THEN StrLess(time, scheduledTime)
                 ELSE FALSE
    IN  IF late THEN "late" ELSE IF early THEN "early" ELSE "ontime"

\* formatTimeWithStatus(...).status
formatTimeWithStatus(time, scheduledTime, type, tol) ==
    IF Falsy(time)
    THEN "absent"
    ELSE LET late  == IF type = "arrival" THEN isLate(time, scheduledTime, tol) ELSE FALSE
             early == IF type = "departure" /\ ~Falsy(scheduledTime)
                      THEN StrLess(time, scheduledTime)
                      ELSE FALSE
         IN  IF late THEN "late" ELSE IF early THEN "early" ELSE "ontime"

\* AttendanceView showing the leave notice only when no time is recorded.
AttendanceView_LeaveOnlyWithoutTimes(att) ==
    IF /\ att.conge
       /\ Falsy(att.morningCheckIn) /\ Falsy(att.morningCheckOut)
       /\ Falsy(att.afternoonCheckIn) /\ Falsy(att.afternoonCheckOut)
    THEN "leave"
    ELSE "details"

\* What the attendance tab shows for a fetched record: the leave notice
\* alone, or the four classified times.
AttendanceView(att) == IF att.conge THEN "leave" ELSE "details"

\* The four badges of the details view.
Badges(att) ==
    [morningCheckIn    |-> formatTimeWithStatus(att.morningCheckIn, att.entree_matin,
                                                "arrival", att.tolerance),
     morningCheckOut   |-> formatTimeWithStatus(att.morningCheckOut, att.sortie_matin,
                                                "departure", <<>>),
     afternoonCheckIn  |-> formatTimeWithStatus(att.afternoonCheckIn, att.entree_aprem,
                                                "arrival", att.tolerance),
     afternoonCheckOut |-> formatTimeWithStatus(att.afternoonCheckOut, att.sortie_aprem,
                                                "departure", <<>>)]

NoBadges ==
    [morningCheckIn |-> "none", morningCheckOut |-> "none",
     afternoonCheckIn |-> "none", afternoonCheckOut |-> "none"]

-----------------------------------------------------------------------------
(* EvaluatedStatus: the day's status and durations *)

\* Minutes since midnight of an "HH:mm" string.
ParseTime(s) ==
    ((s[1] - 48) * 10 + (s[2] - 48)) * 60 + (s[4] - 48) * 10 + (s[5] - 48)

\* A half-day is a recorded working span when both ends are present and in order.
RecordedSpan(checkIn, checkOut) ==
    /\ ~Falsy(checkIn)
    /\ ~Falsy(checkOut)
    /\ ParseTime(checkIn) <= ParseTime(checkOut)

\* SpanMinutes without the floor at zero.
SpanMinutes_NoClamp(checkIn, checkOut) ==
    IF Falsy(checkIn) \/ Falsy(checkOut)
    THEN 0
    ELSE ParseTime(checkOut) - ParseTime(checkIn)

\* Worked minutes of one half-day: 0 when an end is missing or the ends are
\* out of order.
SpanMinutes(checkIn, checkOut) ==
    IF Falsy(checkIn) \/ Falsy(checkOut)
    THEN 0
    ELSE Max(0, ParseTime(checkOut) - ParseTime(checkIn))

\* ExitEnd taking "now" for every open exit, whatever the date.
ExitEnd_OpenAlwaysRunning(exit, today, clock) ==
    IF ~Falsy(exit.returnTime) THEN <<ParseTime(exit.returnTime)>>
    ELSE <<clock>>

\* The end of an exit: its return time, or "now" for an open exit of the
\* current date; an open exit of a past date has none.
ExitEnd(exit, today, clock) ==
    IF ~Falsy(exit.returnTime) THEN <<ParseTime(exit.returnTime)>>
    ELSE IF today THEN <<clock>>
    ELSE <<>>

ExitWithin(exit, today, clock, checkIn, checkOut) ==
    /\ RecordedSpan(checkIn, checkOut)
    /\ ExitEnd(exit, today, clock) # <<>>
    /\ ParseTime(checkIn) <= ParseTime(exit.exitTime)
    /\ ParseTime(exit.exitTime) <= ExitEnd(exit, today, clock)[1]
    /\ ExitEnd(exit, today, clock)[1] <= ParseTime(checkOut)

\* What one exit takes off the worked minutes.
ExitMinutes(att, exit, today, clock) ==
    IF \/ ExitWithin(exit, today, clock, att.morningCheckIn, att.morningCheckOut)
       \/ ExitWithin(exit, today, clock, att.afternoonCheckIn, att.afternoonCheckOut)
    THEN ExitEnd(exit, today, clock)[1] - ParseTime(exit.exitTime)
    ELSE 0

RECURSIVE ExitsMinutes(_, _, _, _)
ExitsMinutes(att, exits, today, clock) ==
    IF exits = <<>>
    THEN 0
    ELSE ExitMinutes(att, Head(exits), today, clock)
         + ExitsMinutes(att, Tail(exits), today, clock)

\* WorkedMinutes with the exits left in.
WorkedMinutes_IgnoresExits(att, exits, today, clock) ==
    SpanMinutes(att.morningCheckIn, att.morningCheckOut)
    + SpanMinutes(att.afternoonCheckIn, att.afternoonCheckOut)

WorkedMinutes(att, exits, today, clock) ==
    SpanMinutes(att.morningCheckIn, att.morningCheckOut)
    + SpanMinutes(att.afternoonCheckIn, att.afternoonCheckOut)
    - ExitsMinutes(att, exits, today, clock)

ScheduledTotalMinutes(att) ==
    (ParseTime(att.sortie_matin) - ParseTime(att.entree_matin))
    + (ParseTime(att.sortie_aprem) - ParseTime(att.entree_aprem))

\* MissedMinutes without the floor at zero.
MissedMinutes_NoFloor(att, worked) == ScheduledTotalMinutes(att) - worked

MissedMinutes(att, worked) == Max(0, ScheduledTotalMinutes(att) - worked)

\* The day's status from the four badges: late before early before present.
OverallStatus(badges) ==
    IF \A f \in DOMAIN badges : badges[f] = "absent" THEN "Absent"
    ELSE IF badges.morningCheckIn = "late" \/ badges.afternoonCheckIn = "late" THEN "Late"
    ELSE IF badges.morningCheckOut = "early" \/ badges.afternoonCheckOut = "early"
         THEN "EarlyDeparture"
    ELSE "Present"

evaluate(att, exits, today, clock) ==
    IF AttendanceView(att) = "leave"
    THEN [status |-> "OnLeave", workedMinutes |-> 0,
          missedMinutes |-> MissedMinutes(att, 0), badges |-> NoBadges]
    ELSE LET worked == WorkedMinutes(att, exits, today, clock)
         IN  [status |-> OverallStatus(Badges(att)), workedMinutes |-> worked,
              missedMinutes |-> MissedMinutes(att, worked), badges |-> Badges(att)]

-----------------------------------------------------------------------------
(* The attendance tab: fetchDailyAttendance *)

Init ==
    /\ backendAttendance \in BackendRecords
    /\ backendExits \in BackendExitLists
    /\ isToday \in BOOLEAN
    /\ now \in NowChoices
    /\ loadingAttendance = FALSE
    /\ dailyAttendance = <<>>
    /\ temporaryExits = <<>>
    /\ evaluated = <<>>

\* The effect starts a fetch for the viewed agent and the selected date.
StartFetch ==
    /\ ~loadingAttendance
    /\ loadingAttendance' = TRUE
    /\ UNCHANGED <<backendAttendance, backendExits, isToday, now,
                   dailyAttendance, temporaryExits, evaluated>>
    /\ UNCHANGED NotAttendance

\* Both requests answered; each response carries data or not.
FetchSettled ==
    /\ loadingAttendance
    /\ \E attOk \in BOOLEAN, exitsOk \in BOOLEAN :
          /\ dailyAttendance' = IF attOk THEN <<AttendanceResponse(backendAttendance)>>
                                ELSE <<>>
          /\ temporaryExits' = IF exitsOk THEN ExitsResponse(backendExits) ELSE <<>>
    /\ evaluated' = IF dailyAttendance' = <<>> THEN <<>>
                    ELSE <<evaluate(dailyAttendance'[1], temporaryExits', isToday, now)>>
    /\ loadingAttendance' = FALSE
    /\ UNCHANGED <<backendAttendance, backendExits, isToday, now>>
    /\ UNCHANGED NotAttendance

\* A request failed: the catch branch.
FetchRejected ==
    /\ loadingAttendance
    /\ dailyAttendance' = <<>>
    /\ temporaryExits' = <<>>
    /\ evaluated' = <<>>
    /\ loadingAttendance' = FALSE
    /\ UNCHANGED <<backendAttendance, backendExits, isToday, now>>
    /\ UNCHANGED NotAttendance

Next == StartFetch \/ FetchSettled \/ FetchRejected

-----------------------------------------------------------------------------
(* Properties.  They are stated on the backend row, in minutes, and on the *)
(* EvaluatedStatus the page derived from the fetched strings.              *)

Shown == evaluated # <<>>

\* An arrival is late when it is after the scheduled start plus the tolerance.
ArrivalLate(arrival, start, tolerance) ==
    arrival # <<>> /\ arrival[1] > start + tolerance

\* A departure is early when it is before the scheduled end.
DepartureEarly(departure, end) ==
    departure # <<>> /\ departure[1] < end

AnyTime(b) ==
    \/ b.morningCheckIn # <<>>
    \/ b.morningCheckOut # <<>>
    \/ b.afternoonCheckIn # <<>>
    \/ b.afternoonCheckOut # <<>>

AnyArrivalLate(b) ==
    \/ ArrivalLate(b.morningCheckIn, b.schedule.entree_matin, b.schedule.tolerance)
    \/ ArrivalLate(b.afternoonCheckIn, b.schedule.entree_aprem, b.schedule.tolerance)

AnyDepartureEarly(b) ==
    \/ DepartureEarly(b.morningCheckOut, b.schedule.sortie_matin)
    \/ DepartureEarly(b.afternoonCheckOut, b.schedule.sortie_aprem)

ExampleSchedule ==
    [entree_matin |-> HM(9, 0), sortie_matin |-> HM(12, 0),
     entree_aprem |-> HM(13, 0), sortie_aprem |-> HM(17, 0), tolerance |-> 15]

\* C1: an arrival is classified late if and only if it is after the
\* scheduled start plus the tolerance minutes; an arrival exactly at
\* start + tolerance is not late and one minute later is late.
C1_LateIffBeyondTolerance ==
    (Shown /\ ~backendAttendance.conge) =>
        /\ backendAttendance.morningCheckIn # <<>> =>
              ((evaluated[1].badges.morningCheckIn = "late")
               <=> ArrivalLate(backendAttendance.morningCheckIn,
                               backendAttendance.schedule.entree_matin,
                               backendAttendance.schedule.tolerance))
        /\ backendAttendance.afternoonCheckIn # <<>> =>
              ((evaluated[1].badges.afternoonCheckIn = "late")
               <=> ArrivalLate(backendAttendance.afternoonCheckIn,
                               backendAttendance.schedule.entree_aprem,
                               backendAttendance.schedule.tolerance))

\* C2: a record on leave evaluates to OnLeave with no worked minutes and no
\* classification of its check-in/out times, whatever times and exits it has.
C2_LeaveTakesPrecedence ==
    (Shown /\ backendAttendance.conge) =>
        /\ evaluated[1].status = "OnLeave"
        /\ evaluated[1].workedMinutes = 0
        /\ \A f \in DOMAIN evaluated[1].badges :
              evaluated[1].badges[f] \notin {"late", "early", "ontime", "absent"}

\* A record on leave that carries a late arrival, an early departure and a
\* temporary exit has been evaluated.
C2_Witness ==
    /\ Shown
    /\ backendAttendance.conge
    /\ backendAttendance.schedule = ExampleSchedule
    /\ backendAttendance.morningCheckIn = <<HM(9, 20)>>
    /\ backendAttendance.morningCheckOut = <<HM(12, 0)>>
    /\ backendAttendance.afternoonCheckOut = <<HM(16, 45)>>
    /\ temporaryExits # <<>>

\* C3: a record not on leave with at least one time is Late if an arrival is
\* late, otherwise EarlyDeparture if a departure is early, otherwise Present.
C3_StatusPrecedence ==
    (Shown /\ ~backendAttendance.conge /\ AnyTime(backendAttendance)) =>
        evaluated[1].status =
            IF AnyArrivalLate(backendAttendance) THEN "Late"
            ELSE IF AnyDepartureEarly(backendAttendance) THEN "EarlyDeparture"
            ELSE "Present"

\* C4: a departure is classified early if and only if it is before the
\* scheduled end, whatever the tolerance.
C4_EarlyIffBeforeEnd ==
    (Shown /\ ~backendAttendance.conge) =>
        /\ backendAttendance.morningCheckOut # <<>> =>
              ((evaluated[1].badges.morningCheckOut = "early")
               <=> DepartureEarly(backendAttendance.morningCheckOut,
                                  backendAttendance.schedule.sortie_matin))
        /\ backendAttendance.afternoonCheckOut # <<>> =>
              ((evaluated[1].badges.afternoonCheckOut = "early")
               <=> DepartureEarly(backendAttendance.afternoonCheckOut,
                                  backendAttendance.schedule.sortie_aprem))

\* With a tolerance of 15 minutes, a departure one minute before the
\* scheduled end of the morning and one exactly at the end of the afternoon
\* have been classified.
C4_Witness ==
    /\ Shown
    /\ ~backendAttendance.conge
    /\ backendAttendance.schedule = ExampleSchedule
    /\ backendAttendance.morningCheckOut = <<HM(11, 59)>>
    /\ backendAttendance.afternoonCheckOut = <<HM(17, 0)>>
    /\ evaluated[1].badges.morningCheckOut = "early"
    /\ evaluated[1].badges.afternoonCheckOut = "ontime"

\* C5: a record not on leave with no time at all is Absent with no worked
\* minutes, and no other record is Absent.
C5_AbsentIffNoTimes ==
    Shown =>
        /\ (~backendAttendance.conge /\ ~AnyTime(backendAttendance)) =>
              (evaluated[1].status = "Absent" /\ evaluated[1].workedMinutes = 0)
        /\ evaluated[1].status = "Absent" =>
              (~backendAttendance.conge /\ ~AnyTime(backendAttendance))

\* A record with no time, not on leave, has been evaluated with an exit on
\* the same day.
C5_Witness ==
    /\ Shown
    /\ ~backendAttendance.conge
    /\ ~AnyTime(backendAttendance)
    /\ temporaryExits # <<>>
    /\ evaluated[1].status = "Absent"

-----------------------------------------------------------------------------
(* Durations, in minutes, on the backend rows *)

\* The exits the page holds, as backend rows.
ShownExits == IF temporaryExits = <<>> THEN <<>> ELSE backendExits

\* checkOut - checkIn of a half-day, 0 when an end is missing.
RawSpan(checkIn, checkOut) ==
    IF checkIn = <<>> \/ checkOut = <<>> THEN 0 ELSE checkOut[1] - checkIn[1]

\* The same, never negative.
ClampedSpan(checkIn, checkOut) == Max(0, RawSpan(checkIn, checkOut))

\* The end of an exit: its return, or now for an open exit of the current date.
ExitUntil(e) ==
    IF e.returnTime # <<>> THEN e.returnTime
    ELSE IF isToday THEN <<now>>
    ELSE <<>>

ExitInside(e, checkIn, checkOut) ==
    /\ checkIn # <<>>
    /\ checkOut # <<>>
    /\ ExitUntil(e) # <<>>
    /\ checkIn[1] <= e.exitTime
    /\ e.exitTime <= ExitUntil(e)[1]
    /\ ExitUntil(e)[1] <= checkOut[1]

ExitDuration(b, e) ==
    IF \/ ExitInside(e, b.morningCheckIn, b.morningCheckOut)
       \/ ExitInside(e, b.afternoonCheckIn, b.afternoonCheckOut)
    THEN ExitUntil(e)[1] - e.exitTime
    ELSE 0

RECURSIVE ExitDurations(_, _)
ExitDurations(b, q) ==
    IF q = <<>> THEN 0 ELSE ExitDuration(b, Head(q)) + ExitDurations(b, Tail(q))

ScheduledTotal(b) ==
    (b.schedule.sortie_matin - b.schedule.entree_matin)
    + (b.schedule.sortie_aprem - b.schedule.entree_aprem)

Malformed(checkIn, checkOut) ==
    checkIn # <<>> /\ checkOut # <<>> /\ checkOut[1] < checkIn[1]

C7_MissedIsFlooredDifference ==
    Shown =>
        /\ evaluated[1].missedMinutes =
              Max(0, ScheduledTotal(backendAttendance) - evaluated[1].workedMinutes)
        /\ evaluated[1].missedMinutes >= 0

\* More minutes were worked than the schedule holds.
C7_Witness ==
    /\ Shown
    /\ evaluated[1].workedMinutes > ScheduledTotal(backendAttendance)
    /\ evaluated[1].missedMinutes = 0

\* The status is one the times of the record give: a late arrival makes the
\* day Late, EarlyDeparture needs an early departure, and Present needs
\* neither.
StatusFollowsTimes(b, status) ==
    /\ AnyArrivalLate(b) => status = "Late"
    /\ status = "EarlyDeparture" => AnyDepartureEarly(b)
    /\ status = "Present" => (~AnyArrivalLate(b) /\ ~AnyDepartureEarly(b))

\* C8: every record evaluates to one of the five statuses; a half-day whose
\* checkOut is before its checkIn counts 0 worked minutes, and the status is
\* still one of Present, Late and EarlyDeparture, given by the times.
C8_TotalAndClamped ==
    /\ (dailyAttendance # <<>>) => Shown
    /\ Shown =>
          evaluated[1].status \in {"Present", "Late", "EarlyDeparture", "Absent", "OnLeave"}
    /\ (/\ Shown
        /\ ~backendAttendance.conge
        /\ Malformed(backendAttendance.morningCheckIn, backendAttendance.morningCheckOut)) =>
          /\ evaluated[1].workedMinutes =
                ClampedSpan(backendAttendance.afternoonCheckIn,
                            backendAttendance.afternoonCheckOut)
                - ExitDurations(backendAttendance, ShownExits)
          /\ StatusFollowsTimes(backendAttendance, evaluated[1].status)
          /\ evaluated[1].status \in {"Present", "Late", "EarlyDeparture"}
    /\ (/\ Shown
        /\ ~backendAttendance.conge
        /\ Malformed(backendAttendance.afternoonCheckIn,
                     backendAttendance.afternoonCheckOut)) =>
          /\ evaluated[1].workedMinutes =
                ClampedSpan(backendAttendance.morningCheckIn,
                            backendAttendance.morningCheckOut)
                - ExitDurations(backendAttendance, ShownExits)
          /\ StatusFollowsTimes(backendAttendance, evaluated[1].status)
          /\ evaluated[1].status \in {"Present", "Late", "EarlyDeparture"}

\* A morning 09:10-09:05 has been evaluated next to an afternoon 13:00-17:00.
C8_Witness ==
    /\ Shown
    /\ ~backendAttendance.conge
    /\ backendAttendance.morningCheckIn = <<HM(9, 10)>>
    /\ backendAttendance.morningCheckOut = <<HM(9, 5)>>
    /\ backendAttendance.afternoonCheckIn = <<HM(13, 0)>>
    /\ backendAttendance.afternoonCheckOut = <<HM(17, 0)>>
    /\ evaluated[1].workedMinutes = 240

ExampleRecord ==
    [morningCheckIn |-> <<HM(9, 10)>>, morningCheckOut |-> <<HM(12, 0)>>,
     afternoonCheckIn |-> <<HM(13, 0)>>, afternoonCheckOut |-> <<HM(17, 0)>>,
     schedule |-> ExampleSchedule, conge |-> FALSE]

\* C9: the example record 09:10-12:00, 13:00-17:00 under the schedule
\* 09:00-12:00, 13:00-17:00 with 15 minutes of tolerance and no exit is
\* Present with 420 worked minutes.
C9_ExamplePresent420 ==
    (Shown /\ backendAttendance = ExampleRecord /\ ShownExits = <<>>) =>
        (evaluated[1].status = "Present" /\ evaluated[1].workedMinutes = 420)

\* C10: the example record leaving at 16:45 is EarlyDeparture with 405
\* worked minutes.
C10_ExampleEarly405 ==
    (/\ Shown
     /\ backendAttendance = [ExampleRecord EXCEPT !.afternoonCheckOut = <<HM(16, 45)>>]
     /\ ShownExits = <<>>) =>
        (evaluated[1].status = "EarlyDeparture" /\ evaluated[1].workedMinutes = 405)

-----------------------------------------------------------------------------
(* Purity of the evaluation *)

OpenExitShown == \E i \in 1..Len(ShownExits) : ShownExits[i].returnTime = <<>>

-----------------------------------------------------------------------------
(* WorkSchedules: the add and edit dialogs of the schedules page *)

MaxSchedules == 2

\* The values a time input can hold: empty, or a time of day.
FormTimes == Opt({HM(8, 0), HM(12, 0), HM(13, 0), HM(17, 0)})

\* The names typed: "", " " and "H".
FormNames == {<<>>, <<32>>, <<72>>}

\* Number(e.target.value) of the tolerance input.
FormTolerances == {<<-1>>, <<0>>, <<15>>}

FormFields ==
    {"name", "morningStart", "morningEnd", "afternoonStart", "afternoonEnd", "tolerance"}

FormValues(field) ==
    IF field = "name" THEN FormNames
    ELSE IF field = "tolerance" THEN FormTolerances
    ELSE FormTimes

\* The initial value of the add form.
InitialNewSchedule ==
    [id |-> 0, name |-> <<>>,
     morningStart |-> <<HM(8, 0)>>, morningEnd |-> <<HM(12, 0)>>,
     afternoonStart |-> <<HM(13, 0)>>, afternoonEnd |-> <<HM(17, 0)>>,
     tolerance |-> <<15>>]

\* The listed schedule of an id, as the API returned it.
ListedSchedule(id) == [InitialNewSchedule EXCEPT !.id = id, !.name = <<72>>]

\* name.trim()
Trim(name) == SelectSeq(name, LAMBDA ch : ch # 32)

\* a >= b on strings.
StrGreaterEq(a, b) == ~StrLess(a, b)

\* validateSchedule: the times are compared as the strings of the inputs.
validateSchedule(schedule) ==
    LET morningStart   == TimeField(schedule.morningStart)
        morningEnd     == TimeField(schedule.morningEnd)
        afternoonStart == TimeField(schedule.afternoonStart)
        afternoonEnd   == TimeField(schedule.afternoonEnd)
    IN  IF Falsy(schedule.name) \/ Falsy(Trim(schedule.name)) THEN FALSE
        ELSE IF StrGreaterEq(morningStart, morningEnd) THEN FALSE
        ELSE IF StrGreaterEq(afternoonStart, afternoonEnd) THEN FALSE
        ELSE IF StrGreater(morningEnd, afternoonStart) THEN FALSE
        ELSE IF schedule.tolerance = <<>> \/ schedule.tolerance[1] < 0 THEN FALSE
        ELSE TRUE

SchedulesInit ==
    /\ schedules = <<>>
    /\ newSchedule = InitialNewSchedule
    /\ isAddDialogOpen = FALSE
    /\ editingSchedule = <<>>
    /\ scheduleRequest = <<>>
    /\ scheduleToast = "none"

\* The dialogs are modal, and a form is not edited while its request is awaited.
OpenAddDialog ==
    /\ ~isAddDialogOpen /\ editingSchedule = <<>> /\ scheduleRequest = <<>>
    /\ isAddDialogOpen' = TRUE
    /\ UNCHANGED <<schedules, newSchedule, editingSchedule, scheduleRequest, scheduleToast>>
    /\ UNCHANGED NotSchedules

CloseAddDialog ==
    /\ isAddDialogOpen /\ scheduleRequest = <<>>
    /\ isAddDialogOpen' = FALSE
    /\ UNCHANGED <<schedules, newSchedule, editingSchedule, scheduleRequest, scheduleToast>>
    /\ UNCHANGED NotSchedules

\* onChange of an input of the add dialog.
ChangeNewSchedule ==
    /\ isAddDialogOpen /\ scheduleRequest = <<>>
    /\ \E field \in FormFields : \E input \in FormValues(field) :
          newSchedule' = [newSchedule EXCEPT ![field] = input]
    /\ UNCHANGED <<schedules, isAddDialogOpen, editingSchedule, scheduleRequest,
                   scheduleToast>>
    /\ UNCHANGED NotSchedules

\* handleCreateSchedule up to the call of createSchedule.
handleCreateSchedule ==
    /\ isAddDialogOpen /\ scheduleRequest = <<>>
    /\ IF ~validateSchedule(newSchedule)
       THEN /\ scheduleToast' = "invalid"
            /\ UNCHANGED scheduleRequest
       ELSE /\ scheduleRequest' = <<[op |-> "create", schedule |-> newSchedule]>>
            /\ UNCHANGED scheduleToast
    /\ UNCHANGED <<schedules, newSchedule, isAddDialogOpen, editingSchedule>>
    /\ UNCHANGED NotSchedules

\* The response of createSchedule, with or without data.
CreateResolved ==
    /\ scheduleRequest # <<>> /\ scheduleRequest[1].op = "create"
    /\ \E ok \in BOOLEAN :
          IF ok /\ Len(schedules) < MaxSchedules
          THEN /\ schedules' = Append(schedules, Len(schedules) + 1)
               /\ scheduleToast' = "created"
               /\ isAddDialogOpen' = FALSE
               /\ newSchedule' = InitialNewSchedule
          ELSE /\ scheduleToast' = "failed"
               /\ UNCHANGED <<schedules, isAddDialogOpen, newSchedule>>
    /\ scheduleRequest' = <<>>
    /\ UNCHANGED editingSchedule
    /\ UNCHANGED NotSchedules

\* createSchedule or updateSchedule threw.
ScheduleRequestRejected ==
    /\ scheduleRequest # <<>>
    /\ scheduleRequest' = <<>>
    /\ scheduleToast' = "error"
    /\ UNCHANGED <<schedules, newSchedule, isAddDialogOpen, editingSchedule>>
    /\ UNCHANGED NotSchedules

\* The edit button of a row.  The add form then holds its initial value.
OpenEditDialog ==
    /\ ~isAddDialogOpen /\ editingSchedule = <<>> /\ scheduleRequest = <<>>
    /\ newSchedule = InitialNewSchedule
    /\ \E i \in 1..Len(schedules) : editingSchedule' = <<ListedSchedule(schedules[i])>>
    /\ UNCHANGED <<schedules, newSchedule, isAddDialogOpen, scheduleRequest, scheduleToast>>
    /\ UNCHANGED NotSchedules

CloseEditDialog ==
    /\ editingSchedule # <<>> /\ scheduleRequest = <<>>
    /\ editingSchedule' = <<>>
    /\ UNCHANGED <<schedules, newSchedule, isAddDialogOpen, scheduleRequest, scheduleToast>>
    /\ UNCHANGED NotSchedules

\* onChange of an input of the edit dialog.
ChangeEditingSchedule ==
    /\ editingSchedule # <<>> /\ scheduleRequest = <<>>
    /\ \E field \in FormFields : \E input \in FormValues(field) :
          editingSchedule' = <<[editingSchedule[1] EXCEPT ![field] = input]>>
    /\ UNCHANGED <<schedules, newSchedule, isAddDialogOpen, scheduleRequest, scheduleToast>>
    /\ UNCHANGED NotSchedules

\* handleSaveChanges up to the call of updateSchedule.
handleSaveChanges ==
    /\ editingSchedule # <<>> /\ scheduleRequest = <<>>
    /\ IF ~validateSchedule(editingSchedule[1])
       THEN /\ scheduleToast' = "invalid"
            /\ UNCHANGED scheduleRequest
       ELSE /\ scheduleRequest' = <<[op |-> "update", schedule |-> editingSchedule[1]]>>
            /\ UNCHANGED scheduleToast
    /\ UNCHANGED <<schedules, newSchedule, isAddDialogOpen, editingSchedule>>
    /\ UNCHANGED NotSchedules

\* The response of updateSchedule, with or without data.
UpdateResolved ==
    /\ scheduleRequest # <<>> /\ scheduleRequest[1].op = "update"
    /\ \E ok \in BOOLEAN :
          IF ok
          THEN /\ scheduleToast' = "updated"
               /\ editingSchedule' = <<>>
          ELSE /\ scheduleToast' = "failed"
               /\ UNCHANGED editingSchedule
    /\ scheduleRequest' = <<>>
    /\ UNCHANGED <<schedules, newSchedule, isAddDialogOpen>>
    /\ UNCHANGED NotSchedules

NextSchedules ==
    \/ OpenAddDialog \/ CloseAddDialog \/ ChangeNewSchedule
    \/ handleCreateSchedule \/ CreateResolved \/ ScheduleRequestRejected
    \/ OpenEditDialog \/ CloseEditDialog \/ ChangeEditingSchedule
    \/ handleSaveChanges \/ UpdateResolved

\* The invariant of a schedule: four times of day in order and a tolerance
\* that is a number not below zero.
ScheduleInvariant(schedule) ==
    /\ schedule.morningStart # <<>> /\ schedule.morningEnd # <<>>
    /\ schedule.afternoonStart # <<>> /\ schedule.afternoonEnd # <<>>
    /\ schedule.morningStart[1] < schedule.morningEnd[1]
    /\ schedule.morningEnd[1] <= schedule.afternoonStart[1]
    /\ schedule.afternoonStart[1] < schedule.afternoonEnd[1]
    /\ schedule.tolerance # <<>> /\ schedule.tolerance[1] >= 0

\* C12: every schedule sent to createSchedule or updateSchedule satisfies the
\* invariant of a schedule; a form that violates it is rejected and no call
\* is made.
C12_SentSchedulesValid ==
    scheduleRequest # <<>> => ScheduleInvariant(scheduleRequest[1].schedule)

-----------------------------------------------------------------------------
(* fetchWithAuth: a request with the access token, refreshed once on 401 *)

\* The tokens the backend issues.
Tokens == {"t1", "t2"}

\* The status of a response that asks for a refresh.
Unauthorized == 401

\* The statuses the backend answers with.
Statuses == {200, Unauthorized, 403, 500}

\* response.ok
Ok(status) == status >= 200 /\ status <= 299

\* The answers of the refresh endpoint: a status and the tokens of data.data.
RefreshResponses ==
    [status : {200, 403}, accessToken : Opt(Tokens), refreshToken : Opt(Tokens)]

EmptyStorage ==
    [staff_attendance_auth |-> <<>>, access_token |-> <<>>, refresh_token |-> <<>>]

\* refreshAccessToken after its response, accepting an answer without a
\* refresh token.
refreshedToken_AccessOnly(response) ==
    IF ~Ok(response.status) THEN <<>>
    ELSE IF ~Falsy(response.accessToken) THEN response.accessToken
    ELSE <<>>

\* refreshAccessToken after its response: the new access token, or null.
refreshedToken(response) ==
    IF ~Ok(response.status) THEN <<>>
    ELSE IF ~Falsy(response.accessToken) /\ ~Falsy(response.refreshToken)
         THEN response.accessToken
    ELSE <<>>

FetchInit ==
    /\ fetchPc = "idle"
    /\ fetchSent = <<>>
    /\ fetchFirst = <<>>
    /\ refreshOutcome = <<>>
    /\ fetchResult = <<>>

\* The call and its first request, with the stored access token.
fetchWithAuth ==
    /\ fetchPc = "idle"
    /\ fetchPc' = "first"
    /\ fetchSent' = <<localStorage.access_token>>
    /\ fetchFirst' = <<>>
    /\ refreshOutcome' = <<>>
    /\ fetchResult' = <<>>
    /\ UNCHANGED storageVars
    /\ UNCHANGED NotFetch

\* No new token: the storage is cleared, the browser sent to the login page
\* and the call throws.
SessionExpired ==
    /\ localStorage' = EmptyStorage
    /\ location' = "/login"
    /\ fetchPc' = "thrown"
    /\ fetchResult' = <<[error |-> "Session expirée"]>>

\* The first response.  On 401 refreshAccessToken starts, and ends at once
\* when no refresh token is stored.
FirstResponse ==
    /\ fetchPc = "first"
    /\ \E status \in Statuses :
          /\ fetchFirst' = <<[status |-> status, request |-> 1]>>
          /\ IF status # Unauthorized
             THEN /\ fetchPc' = "returned"
                  /\ fetchResult' = <<[status |-> status, request |-> 1]>>
                  /\ UNCHANGED <<storageVars, refreshOutcome, fetchSent>>
             ELSE IF Falsy(localStorage.refresh_token)
             THEN /\ refreshOutcome' = <<[met |-> "no refresh token", response |-> <<>>]>>
                  /\ SessionExpired
                  /\ UNCHANGED fetchSent
             ELSE /\ fetchPc' = "refresh"
                  /\ UNCHANGED <<storageVars, refreshOutcome, fetchSent, fetchResult>>
    /\ UNCHANGED NotFetch

\* A request of the call fails on the network: the call rejects with the
\* error of fetch.
RequestFailed ==
    /\ fetchPc \in {"first", "retry"}
    /\ fetchPc' = "thrown"
    /\ fetchResult' = <<[error |-> "Failed to fetch"]>>
    /\ UNCHANGED <<storageVars, fetchSent, fetchFirst, refreshOutcome>>
    /\ UNCHANGED NotFetch

\* The answer of the refresh endpoint.
RefreshResponse ==
    /\ fetchPc = "refresh"
    /\ \E response \in RefreshResponses :
          /\ refreshOutcome' = <<[met |-> "response", response |-> <<response>>]>>
          /\ IF refreshedToken(response) # <<>>
             THEN /\ localStorage' =
                         [localStorage EXCEPT !.access_token = response.accessToken,
                                              !.refresh_token = response.refreshToken]
                  /\ fetchSent' = Append(fetchSent, refreshedToken(response))
                  /\ fetchPc' = "retry"
                  /\ UNCHANGED <<location, fetchResult>>
             ELSE /\ SessionExpired
                  /\ UNCHANGED fetchSent
    /\ UNCHANGED fetchFirst
    /\ UNCHANGED NotFetch

\* The refresh request fails on the network.
RefreshFailed ==
    /\ fetchPc = "refresh"
    /\ refreshOutcome' = <<[met |-> "network error", response |-> <<>>]>>
    /\ SessionExpired
    /\ UNCHANGED <<fetchSent, fetchFirst>>
    /\ UNCHANGED NotFetch

\* The response of the second request, whatever its status.
RetryResponse ==
    /\ fetchPc = "retry"
    /\ \E status \in Statuses :
          fetchResult' = <<[status |-> status, request |-> 2]>>
    /\ fetchPc' = "returned"
    /\ UNCHANGED <<storageVars, fetchSent, fetchFirst, refreshOutcome>>
    /\ UNCHANGED NotFetch

\* The caller has its response or its error; the next call can start.
FetchSettledCall ==
    /\ fetchPc \in {"returned", "thrown"}
    /\ fetchPc' = "idle"
    /\ UNCHANGED <<storageVars, fetchSent, fetchFirst, refreshOutcome, fetchResult>>
    /\ UNCHANGED NotFetch

NextFetch ==
    \/ fetchWithAuth \/ FirstResponse \/ RequestFailed \/ RefreshResponse
    \/ RefreshFailed \/ RetryResponse \/ FetchSettledCall

\* The call has ended.
FetchEnded == fetchPc \in {"returned", "thrown"}

\* The first response of the call was a 401.
FirstUnauthorized == fetchFirst # <<>> /\ fetchFirst[1].status = Unauthorized

\* The refresh failed: no refresh token, an answer that is not OK, an answer
\* that lacks a token, or a network error.
RefreshFailure ==
    /\ refreshOutcome # <<>>
    /\ \/ refreshOutcome[1].met = "no refresh token"
       \/ refreshOutcome[1].met = "network error"
       \/ /\ refreshOutcome[1].met = "response"
          /\ \/ refreshOutcome[1].response[1].status \notin 200..299
             \/ refreshOutcome[1].response[1].accessToken = <<>>
             \/ refreshOutcome[1].response[1].refreshToken = <<>>

\* C13: a first response other than 401 is returned as it is, with one
\* request and no refresh; after a 401 whose refresh gave a new access token
\* the request is sent once more with that token and the second response is
\* returned; after a 401 whose refresh failed the storage is cleared, the
\* browser is at /login and the call throws the session error.
C13_RefreshOn401 ==
    FetchEnded /\ fetchFirst # <<>> =>
        IF ~FirstUnauthorized
        THEN /\ fetchResult = fetchFirst
             /\ refreshOutcome = <<>>
             /\ Len(fetchSent) = 1
        ELSE IF RefreshFailure
        THEN /\ fetchResult = <<[error |-> "Session expirée"]>>
             /\ localStorage = EmptyStorage
             /\ location = "/login"
             /\ Len(fetchSent) = 1
        ELSE /\ refreshOutcome # <<>>
             /\ Len(fetchSent) = 2
             /\ fetchSent[2] = refreshOutcome[1].response[1].accessToken
             /\ localStorage.access_token = refreshOutcome[1].response[1].accessToken
             /\ \/ fetchResult # <<>> /\ fetchResult[1] \in [status : Statuses, request : {2}]
                \/ fetchResult = <<[error |-> "Failed to fetch"]>>

\* A call that was retried after a refresh and returned the second response.
C13_Witness ==
    /\ fetchPc = "returned" /\ FirstUnauthorized /\ ~RefreshFailure
    /\ fetchResult[1].request = 2 /\ fetchResult[1].status = Unauthorized

-----------------------------------------------------------------------------
(* useApi: the state of one API call *)

MaxPending == 3

\* The arguments execute is called with; the data of a call is its argument.
ApiArgs == {"a1", "a2"}

\* The answers of the API function: success with data, success without
\* data, failure with or without a message.
ApiResponses(arg) ==
    {[success |-> TRUE,  data |-> <<arg>>, error |-> ""],
     [success |-> TRUE,  data |-> <<>>,    error |-> ""],
     [success |-> FALSE, data |-> <<>>,    error |-> "Not found"],
     [success |-> FALSE, data |-> <<>>,    error |-> ""]}

\* What the API function can throw: an Error with its message, or another
\* value.
ApiThrown == {<<"Failed to fetch">>, <<>>}

InitialApiState == [data |-> <<>>, loading |-> FALSE, error |-> <<>>]

\* The sequence without its i-th element.
RemoveAt(seq, i) == SubSeq(seq, 1, i - 1) \o SubSeq(seq, i + 1, Len(seq))

ApiInit ==
    /\ apiState = InitialApiState
    /\ apiPending = <<>>
    /\ apiReturned = <<>>

\* execute up to its await.
execute ==
    /\ Len(apiPending) < MaxPending
    /\ \E arg \in ApiArgs : apiPending' = Append(apiPending, arg)
    /\ apiState' = [data |-> <<>>, loading |-> TRUE, error |-> <<>>]
    /\ UNCHANGED apiReturned
    /\ UNCHANGED NotApi

\* execute after its await, the API function having answered.
ExecuteResolved ==
    /\ \E i \in 1..Len(apiPending) : \E response \in ApiResponses(apiPending[i]) :
          /\ apiPending' = RemoveAt(apiPending, i)
          /\ IF response.success /\ ~Falsy(response.data)
             THEN /\ apiState' = [data |-> response.data, loading |-> FALSE,
                                  error |-> <<>>]
                  /\ apiReturned' = response.data
             ELSE /\ apiState' =
                        [data |-> <<>>, loading |-> FALSE,
                         error |-> <<IF response.error = "" THEN "An error occurred"
                                     ELSE response.error>>]
                  /\ apiReturned' = <<>>
    /\ UNCHANGED NotApi

\* execute after its await, the API function having thrown.
ExecuteRejected ==
    /\ \E i \in 1..Len(apiPending) : \E thrown \in ApiThrown :
          /\ apiPending' = RemoveAt(apiPending, i)
          /\ apiState' =
                [data |-> <<>>, loading |-> FALSE,
                 error |-> IF thrown # <<>> THEN thrown
                           ELSE <<"An unexpected error occurred">>]
          /\ apiReturned' = <<>>
    /\ UNCHANGED NotApi

reset ==
    /\ apiState' = InitialApiState
    /\ UNCHANGED <<apiPending, apiReturned>>
    /\ UNCHANGED NotApi

NextApi == execute \/ ExecuteResolved \/ ExecuteRejected \/ reset

\* C14: in every state reached by calls of execute and reset, data and error
\* are not both set, and loading is true exactly while a call started by
\* execute is still awaited.
C14_LoadingWhileInProgress ==
    /\ ~(apiState.data # <<>> /\ apiState.error # <<>>)
    /\ apiState.loading <=> apiPending # <<>>

-----------------------------------------------------------------------------
(* useDebounce: a value that follows its input after a delay *)

\* The delay, in ticks of the clock.
DelayTicks == 4

\* The inputs typed.
DebounceValues == {"", "h", "he", "hel", "hell"}

\* The effect with a timeout that is due at once.
effect_NoDelay(v) == <<[value |-> v, remaining |-> 0]>>

\* The effect: a timeout that will set the debounced value to v.
effect(v) == <<[value |-> v, remaining |-> DelayTicks]>>

DebounceInit ==
    /\ value = ""
    /\ debouncedValue = value
    /\ handler = effect(value)
    /\ unchangedFor = 0

\* A render with a new input: the cleanup clears the timeout, the effect
\* sets a new one.
ChangeValue ==
    /\ \E v \in DebounceValues \ {value} :
          /\ value' = v
          /\ handler' = effect(v)
    /\ unchangedFor' = 0
    /\ UNCHANGED debouncedValue
    /\ UNCHANGED NotDebounce

\* A tick of the clock.  A timeout that is due may still wait.
Tick ==
    /\ unchangedFor < DelayTicks
    /\ unchangedFor' = unchangedFor + 1
    /\ handler' =
          IF handler # <<>> /\ handler[1].remaining > 0
          THEN <<[handler[1] EXCEPT !.remaining = @ - 1]>>
          ELSE handler
    /\ UNCHANGED <<value, debouncedValue>>
    /\ UNCHANGED NotDebounce

\* The timeout runs: setDebouncedValue(value) with the value of its render.
TimeoutFires ==
    /\ handler # <<>> /\ handler[1].remaining = 0
    /\ debouncedValue' = handler[1].value
    /\ handler' = <<>>
    /\ UNCHANGED <<value, unchangedFor>>
    /\ UNCHANGED NotDebounce

NextDebounce == ChangeValue \/ Tick \/ TimeoutFires

\* C15: the debounced value changes only when the input has stayed unchanged
\* for the full delay, and then to the input of that moment, never to a
\* value the input has left; and an input that stops changing is eventually
\* the debounced value.
C15_DebouncedFollowsSettledInput ==
    /\ [][debouncedValue' # debouncedValue =>
             unchangedFor >= DelayTicks /\ debouncedValue' = value]_vars
    /\ \A v \in DebounceValues : <>[](value = v) => <>[](debouncedValue = v)

\* The debounced value has followed the input to its third value.
C15_Witness ==
    /\ value = "hel" /\ debouncedValue = "hel"
    /\ handler = <<>> /\ unchangedFor = DelayTicks

-----------------------------------------------------------------------------
(* AuthProvider, ProtectedRoute, RoleBasedRoute and the routes of App *)

Roles == {"Admin", "Manager", "Agent"}

\* One user of each role, as the login endpoint returns them.
Users ==
    {[id |-> "1", username |-> "admin", email |-> "admin@company.com",
      role |-> "Admin"],
     [id |-> "2", username |-> "hr_manager", email |-> "hr.manager@company.com",
      role |-> "Manager"],
     [id |-> "4", username |-> "john_smith", email |-> "john.smith@company.com",
      role |-> "Agent"]}

\* JSON.stringify of a session without its role.
JSONstringify_NoRole(user) == <<"{", user.id, user.username, user.email, "}">>

\* JSON.stringify of a session: the text of an object of four members.
JSONstringify(user) == <<"{", user.id, user.username, user.email, user.role, "}">>

\* The text is the JSON of an object of four members.
WellFormed(text) == Len(text) = 6 /\ text[1] = "{" /\ text[6] = "}"

\* JSON.parse: the object of the text; <<>> when it throws.
JSONparse(text) ==
    IF WellFormed(text)
    THEN <<[id |-> text[2], username |-> text[3], email |-> text[4], role |-> text[5]]>>
    ELSE <<>>

\* A stored entry that is not JSON.
CorruptedEntry == <<"{", "1", "admin">>

\* The paths of the routes of App, and one path without a route.
LayoutPaths ==
    {"/", "/agents", "/schedules", "/calendar", "/statistics", "/personal-history",
     "/settings"}

Paths == LayoutPaths \cup {"/login", "/unknown"}

\* The elements a component returns.
Spinner == [kind |-> "spinner", at |-> ""]

Navigate(to) == [kind |-> "navigate", at |-> to]

Page(name) == [kind |-> "page", at |-> name]

\* ProtectedRoute without the authentication check.
ProtectedRoute_NoAuthCheck(children, user, loading, path) ==
    IF loading THEN Spinner
    ELSE IF path = "/" /\ user # <<>> /\ user[1].role = "Agent"
         THEN Navigate("/personal-history")
    ELSE children

ProtectedRoute(children, user, loading, path) ==
    LET isAuthenticated == user # <<>>
    IN  IF loading THEN Spinner
        ELSE IF ~isAuthenticated THEN Navigate("/login")
        ELSE IF path = "/" /\ user # <<>> /\ user[1].role = "Agent"
             THEN Navigate("/personal-history")
        ELSE children

\* RoleBasedRoute without the role check.
RoleBasedRoute_AnyRole(children, allowedRoles, user, loading) ==
    IF loading THEN Spinner
    ELSE IF user = <<>> THEN Navigate("/login")
    ELSE children

RoleBasedRoute(children, allowedRoles, user, loading) ==
    IF loading THEN Spinner
    ELSE IF user = <<>> THEN Navigate("/login")
    ELSE IF user[1].role \notin allowedRoles
         THEN IF user[1].role = "Agent" THEN Navigate("/personal-history")
              ELSE IF user[1].role = "Manager" THEN Navigate("/")
              ELSE Navigate("/")
    ELSE children

\* The routes nested in the layout: the roles allowed and the page.
RouteRoles(path) ==
    IF path = "/personal-history" THEN {"Agent"} ELSE {"Admin", "Manager"}

RoutePage(path) ==
    CASE path = "/" -> "Dashboard"
      [] path = "/agents" -> "AgentsManagement"
      [] path = "/schedules" -> "WorkSchedules"
      [] path = "/calendar" -> "CalendarHolidays"
      [] path = "/statistics" -> "Statistics"
      [] path = "/personal-history" -> "PersonalHistory"
      [] path = "/settings" -> "Settings"

\* The outlet of the layout.
Outlet(user, loading, path) ==
    IF path = "/settings" THEN Page("Settings")
    ELSE RoleBasedRoute(Page(RoutePage(path)), RouteRoles(path), user, loading)

\* What App shows at a path.
App(user, loading, path) ==
    IF path = "/login" THEN Page("Login")
    ELSE IF path \in LayoutPaths
         THEN ProtectedRoute(Outlet(user, loading, path), user, loading, path)
    ELSE Navigate("/login")

\* The landing page of a role.
Landing(user) == IF user.role = "Agent" THEN "/personal-history" ELSE "/"

AuthInit ==
    /\ currentUser = <<>>
    /\ isLoading = TRUE
    /\ pathname = "/"
    /\ sessionFrom = "none"

\* The effect of AuthProvider: the stored session is read.
restoreSession ==
    /\ isLoading
    /\ LET savedAuth == localStorage.staff_attendance_auth
       IN  IF Falsy(savedAuth)
           THEN UNCHANGED <<currentUser, localStorage, sessionFrom>>
           ELSE IF JSONparse(savedAuth[1]) # <<>>
           THEN /\ currentUser' = JSONparse(savedAuth[1])
                /\ sessionFrom' = "restore"
                /\ UNCHANGED localStorage
           ELSE /\ localStorage' = [localStorage EXCEPT !.staff_attendance_auth = <<>>]
                /\ UNCHANGED <<currentUser, sessionFrom>>
    /\ isLoading' = FALSE
    /\ UNCHANGED <<pathname, location>>
    /\ UNCHANGED NotAuth

\* A reload of the page: a fresh AuthProvider at the same path.
Reload ==
    /\ ~isLoading
    /\ currentUser' = <<>>
    /\ isLoading' = TRUE
    /\ sessionFrom' = "none"
    /\ UNCHANGED <<pathname, storageVars>>
    /\ UNCHANGED NotAuth

\* login, the endpoint having accepted the credentials.
login ==
    /\ ~isLoading /\ pathname = "/login"
    /\ \E user \in Users : \E accessToken \in Tokens : \E refreshToken \in Tokens :
          /\ currentUser' = <<user>>
          /\ localStorage' =
                [staff_attendance_auth |-> <<JSONstringify(user)>>,
                 access_token |-> <<accessToken>>,
                 refresh_token |-> <<refreshToken>>]
    /\ sessionFrom' = "login"
    /\ UNCHANGED <<isLoading, pathname, location>>
    /\ UNCHANGED NotAuth

\* The effect of the login page: a logged-in user goes to the landing page.
LoginRedirect ==
    /\ pathname = "/login" /\ currentUser # <<>>
    /\ pathname' = Landing(currentUser[1])
    /\ UNCHANGED <<currentUser, isLoading, sessionFrom, storageVars>>
    /\ UNCHANGED NotAuth

\* logout of the provider.
logout ==
    /\ currentUser' = <<>>
    /\ localStorage' = [localStorage EXCEPT !.staff_attendance_auth = <<>>]

\* handleLogout of the layout, which is shown when ProtectedRoute renders
\* its children.
handleLogout ==
    /\ pathname \in LayoutPaths
    /\ ProtectedRoute(Page("Layout"), currentUser, isLoading, pathname) = Page("Layout")
    /\ logout
    /\ pathname' = "/login"
    /\ sessionFrom' = "none"
    /\ UNCHANGED <<isLoading, location>>
    /\ UNCHANGED NotAuth

\* The visitor opens a path.
Visit ==
    /\ \E path \in Paths \ {pathname} : pathname' = path
    /\ UNCHANGED <<currentUser, isLoading, sessionFrom, storageVars>>
    /\ UNCHANGED NotAuth

\* A rendered Navigate replaces the path.
FollowNavigate ==
    /\ App(currentUser, isLoading, pathname).kind = "navigate"
    /\ pathname' = App(currentUser, isLoading, pathname).at
    /\ UNCHANGED <<currentUser, isLoading, sessionFrom, storageVars>>
    /\ UNCHANGED NotAuth

NextAuth ==
    \/ restoreSession \/ Reload \/ login \/ LoginRedirect \/ handleLogout
    \/ Visit \/ FollowNavigate

\* What ProtectedRoute returns in the state, around its children.
Children == Page("children")

ProtectedElement == ProtectedRoute(Children, currentUser, isLoading, pathname)

\* C16: while the session is loading ProtectedRoute returns the spinner;
\* after loading an unauthenticated visitor is sent to /login and an Agent
\* at "/" to /personal-history; the children are returned only when loading
\* is over and a user is logged in.
C16_ProtectedRoute ==
    /\ isLoading => ProtectedElement = Spinner
    /\ ~isLoading /\ currentUser = <<>> => ProtectedElement = Navigate("/login")
    /\ ~isLoading /\ currentUser # <<>> /\ currentUser[1].role = "Agent" /\ pathname = "/"
          => ProtectedElement = Navigate("/personal-history")
    /\ ProtectedElement = Children => ~isLoading /\ currentUser # <<>>
    /\ currentUser = <<>> => App(currentUser, isLoading, pathname).kind # "page"
                             \/ App(currentUser, isLoading, pathname) = Page("Login")

\* A visitor without a session at a protected path, after the restore.
C16_Witness ==
    /\ ~isLoading /\ currentUser = <<>> /\ pathname = "/agents"
    /\ sessionFrom = "none" /\ localStorage.access_token # <<>>

\* What RoleBasedRoute returns in the state for a set of allowed roles.
RoleElement(allowedRoles) == RoleBasedRoute(Children, allowedRoles, currentUser, isLoading)

\* The pages of the Admin and the Manager.
ManagementPages ==
    {"Dashboard", "AgentsManagement", "WorkSchedules", "CalendarHolidays", "Statistics"}

\* The page App shows in the state, if it shows one.
ShownPage ==
    IF App(currentUser, isLoading, pathname).kind = "page"
    THEN <<App(currentUser, isLoading, pathname).at>>
    ELSE <<>>

savedAuth == localStorage.staff_attendance_auth

\* C18: the stored entry of a logged-in user is the text of that user, and
\* the restore step of a fresh mount, which turns isLoading from true to
\* false, sets currentUser to the user whose text is stored; an entry that
\* is not JSON is removed and leaves no user; before the restore no user is
\* set.
C18_SessionRestore ==
    /\ [](currentUser # <<>> /\ savedAuth # <<>> =>
             /\ WellFormed(savedAuth[1])
             /\ savedAuth[1][2] = currentUser[1].id
             /\ savedAuth[1][3] = currentUser[1].username
             /\ savedAuth[1][4] = currentUser[1].email
             /\ savedAuth[1][5] = currentUser[1].role)
    /\ [](isLoading => currentUser = <<>>)
    /\ [][isLoading /\ ~isLoading' =>
             IF savedAuth = <<>> THEN currentUser' = <<>> /\ savedAuth' = <<>>
             ELSE IF WellFormed(savedAuth[1])
             THEN /\ currentUser' # <<>> /\ savedAuth' = savedAuth
                  /\ currentUser'[1].id = savedAuth[1][2]
                  /\ currentUser'[1].username = savedAuth[1][3]
                  /\ currentUser'[1].email = savedAuth[1][4]
                  /\ currentUser'[1].role = savedAuth[1][5]
             ELSE currentUser' = <<>> /\ savedAuth' = <<>>]_vars
    /\ [][sessionFrom = "login" /\ sessionFrom' = "none" /\ isLoading' =>
             savedAuth' = savedAuth /\ savedAuth # <<>>]_vars

\* The Manager, restored by a reload after a login.
C18_Witness ==
    /\ sessionFrom = "restore" /\ ~isLoading
    /\ currentUser # <<>> /\ currentUser[1].role = "Manager"
    /\ currentUser[1].email = "hr.manager@company.com"

\* C19: a step that logs the user out leaves currentUser null and none of
\* the stored entry, access_token and refresh_token in the storage.
C19_LogoutClearsSession ==
    [][currentUser # <<>> /\ currentUser' = <<>> /\ ~isLoading' =>
          /\ savedAuth' = <<>>
          /\ localStorage'.access_token = <<>>
          /\ localStorage'.refresh_token = <<>>]_vars

-----------------------------------------------------------------------------
(* Settings: the password dialog and the reveal that hides itself *)

\* The seconds of a reveal.
RevealSeconds == 30

\* The steps of the clock in one second.
StepsPerSecond == 2

\* The effect on [passwordRevealTimer, showPassword], after the cleanup of
\* the one before: a timeout of one second while the timer runs; at zero a
\* password that is shown is hidden and cleared.
effectOfTimer(revealed, show, timer) ==
    IF timer > 0
    THEN [revealedPassword |-> revealed, showPassword |-> show,
          revealTimeout |-> <<StepsPerSecond>>]
    ELSE IF timer = 0 /\ show
    THEN [revealedPassword |-> <<>>, showPassword |-> FALSE, revealTimeout |-> <<>>]
    ELSE [revealedPassword |-> revealed, showPassword |-> show, revealTimeout |-> <<>>]

\* The three variables the effect decides.
Effected(after) ==
    /\ revealedPassword' = after.revealedPassword
    /\ showPassword' = after.showPassword
    /\ revealTimeout' = after.revealTimeout

PasswordInit ==
    /\ passwordDialogUser = <<>>
    /\ revealedPassword = <<>>
    /\ showPassword = FALSE
    /\ passwordRevealTimer = 0
    /\ revealTimeout = <<>>
    /\ sinceReveal = <<>>

\* handlePasswordManagement of an admin: the dialog opens on a user.
handlePasswordManagement ==
    /\ passwordDialogUser = <<>>
    /\ \E user \in {"hr_manager", "john_smith"} : passwordDialogUser' = <<user>>
    /\ passwordRevealTimer' = 0
    /\ Effected(effectOfTimer(<<>>, FALSE, 0))
    /\ UNCHANGED sinceReveal
    /\ UNCHANGED NotPassword

\* The reveal button, shown while no password is revealed.
handleRevealPassword ==
    /\ passwordDialogUser # <<>> /\ revealedPassword = <<>>
    /\ passwordRevealTimer' = RevealSeconds
    /\ Effected(effectOfTimer(<<"secret">>, TRUE, RevealSeconds))
    /\ sinceReveal' = <<0>>
    /\ UNCHANGED passwordDialogUser
    /\ UNCHANGED NotPassword

\* The eye button next to a revealed password.
ToggleShowPassword ==
    /\ passwordDialogUser # <<>> /\ revealedPassword # <<>>
    /\ Effected(effectOfTimer(revealedPassword, ~showPassword, passwordRevealTimer))
    /\ UNCHANGED <<passwordDialogUser, passwordRevealTimer, sinceReveal>>
    /\ UNCHANGED NotPassword

\* The timeout of the effect runs: the timer goes down by one.
RevealTimeoutFires ==
    /\ revealTimeout = <<0>>
    /\ passwordRevealTimer' = passwordRevealTimer - 1
    /\ Effected(effectOfTimer(revealedPassword, showPassword, passwordRevealTimer - 1))
    /\ UNCHANGED <<passwordDialogUser, sinceReveal>>
    /\ UNCHANGED NotPassword

\* A step of the clock.  A timeout that is due runs before the next step.
ClockStep ==
    /\ revealTimeout # <<0>>
    /\ sinceReveal # <<>> /\ sinceReveal[1] <= RevealSeconds * StepsPerSecond
    /\ sinceReveal' = <<sinceReveal[1] + 1>>
    /\ revealTimeout' = IF revealTimeout = <<>> THEN <<>> ELSE <<revealTimeout[1] - 1>>
    /\ UNCHANGED <<passwordDialogUser, revealedPassword, showPassword, passwordRevealTimer>>
    /\ UNCHANGED NotPassword

closePasswordDialog ==
    /\ passwordDialogUser # <<>>
    /\ passwordDialogUser' = <<>>
    /\ passwordRevealTimer' = 0
    /\ Effected(effectOfTimer(<<>>, FALSE, 0))
    /\ UNCHANGED sinceReveal
    /\ UNCHANGED NotPassword

NextPassword ==
    \/ handlePasswordManagement \/ handleRevealPassword \/ ToggleShowPassword
    \/ RevealTimeoutFires \/ ClockStep \/ closePasswordDialog

\* More than the seconds of a reveal have passed since the last reveal.
RevealExpired ==
    sinceReveal # <<>> /\ sinceReveal[1] > RevealSeconds * StepsPerSecond

\* C20: once the thirty seconds after a reveal have passed, the password is
\* not shown and revealedPassword is null, whatever was toggled or closed
\* in between.
C20_HiddenAfterThirtySeconds ==
    RevealExpired => ~showPassword /\ revealedPassword = <<>>

-----------------------------------------------------------------------------
(* ConfirmDialog: the confirm and the cancel button *)

MaxClicks == 3

\* The onConfirm callbacks: synchronous or asynchronous, ending normally or
\* by an exception (a rejection).
Callbacks == [async : BOOLEAN, fails : BOOLEAN]

ConfirmInit ==
    /\ open = FALSE
    /\ hasOnCancel \in BOOLEAN
    /\ confirmPending = <<>>
    /\ confirmClicks = 0
    /\ onConfirmCalls = 0
    /\ confirmFinished = 0
    /\ closedAfterConfirm = 0
    /\ cancelClicks = 0
    /\ onCancelCalls = 0
    /\ closedAfterCancel = 0

\* The parent opens the dialog.
OpenConfirmDialog ==
    /\ ~open /\ confirmClicks + cancelClicks < MaxClicks
    /\ open' = TRUE
    /\ UNCHANGED <<hasOnCancel, confirmPending, confirmClicks, onConfirmCalls,
                   confirmFinished, closedAfterConfirm, cancelClicks, onCancelCalls,
                   closedAfterCancel>>
    /\ UNCHANGED NotConfirm

\* A click on the confirm button: handleConfirm up to its await.  A
\* synchronous onConfirm that throws ends handleConfirm at once, by a
\* rejection.  The button of ui/alert-dialog may close the dialog by itself
\* at the click.
handleConfirm ==
    /\ open /\ confirmClicks + cancelClicks < MaxClicks
    /\ confirmClicks' = confirmClicks + 1
    /\ onConfirmCalls' = onConfirmCalls + 1
    /\ \E callback \in Callbacks :
          IF ~callback.async /\ callback.fails
          THEN /\ confirmFinished' = confirmFinished + 1
               /\ UNCHANGED confirmPending
          ELSE /\ confirmPending' = Append(confirmPending, callback)
               /\ UNCHANGED confirmFinished
    /\ \E closesAtClick \in BOOLEAN : open' = ~closesAtClick
    /\ UNCHANGED <<hasOnCancel, closedAfterConfirm, cancelClicks, onCancelCalls,
                   closedAfterCancel>>
    /\ UNCHANGED NotConfirm

\* handleConfirm after its await: onOpenChange(false) when onConfirm ended
\* normally; nothing more when it rejected.
ConfirmSettled ==
    /\ \E i \in 1..Len(confirmPending) :
          /\ confirmPending' = RemoveAt(confirmPending, i)
          /\ IF confirmPending[i].fails
             THEN UNCHANGED <<open, closedAfterConfirm>>
             ELSE /\ open' = FALSE
                  /\ closedAfterConfirm' = closedAfterConfirm + 1
    /\ confirmFinished' = confirmFinished + 1
    /\ UNCHANGED <<hasOnCancel, confirmClicks, onConfirmCalls, cancelClicks,
                   onCancelCalls, closedAfterCancel>>
    /\ UNCHANGED NotConfirm

\* A click on the cancel button.
handleCancel ==
    /\ open /\ confirmClicks + cancelClicks < MaxClicks
    /\ cancelClicks' = cancelClicks + 1
    /\ onCancelCalls' = IF hasOnCancel THEN onCancelCalls + 1 ELSE onCancelCalls
    /\ open' = FALSE
    /\ closedAfterCancel' = closedAfterCancel + 1
    /\ UNCHANGED <<hasOnCancel, confirmPending, confirmClicks, onConfirmCalls,
                   confirmFinished, closedAfterConfirm>>
    /\ UNCHANGED NotConfirm

NextConfirm == OpenConfirmDialog \/ handleConfirm \/ ConfirmSettled \/ handleCancel

\* No onConfirm is awaited.
NoConfirmPending == confirmPending = <<>>

\* C21: every click on confirm has invoked onConfirm once, and every
\* onConfirm that has ended, normally or not, has been followed by
\* onOpenChange(false); every click on cancel has invoked onCancel, when
\* there is one, and onOpenChange(false).
C21_ConfirmClosesAfterOnConfirm ==
    /\ onConfirmCalls = confirmClicks
    /\ closedAfterConfirm = confirmFinished
    /\ NoConfirmPending => confirmFinished = confirmClicks
    /\ closedAfterCancel = cancelClicks
    /\ onCancelCalls = IF hasOnCancel THEN cancelClicks ELSE 0

-----------------------------------------------------------------------------
(* Specifications *)

\* The attendance tab at rest, on the example record.
AttendanceAtRest ==
    /\ backendAttendance = ExampleRecord
    /\ backendExits = <<>>
    /\ isToday = FALSE
    /\ now = HM(14, 20)
    /\ loadingAttendance = FALSE
    /\ dailyAttendance = <<>>
    /\ temporaryExits = <<>>
    /\ evaluated = <<>>

\* The storage and the location of a signed-out browser on the login page.
StorageAtRest == localStorage = EmptyStorage /\ location = "/login"

\* The confirm dialog at rest, without onCancel.
ConfirmAtRest == ConfirmInit /\ ~hasOnCancel

\* The attendance tab, the other components at rest.
InitAttendance ==
    /\ Init /\ SchedulesInit /\ StorageAtRest /\ FetchInit /\ ApiInit
    /\ DebounceInit /\ AuthInit /\ PasswordInit /\ ConfirmAtRest

Spec == InitAttendance /\ [][Next]_vars

\* The schedules page.
InitSchedules ==
    /\ AttendanceAtRest /\ SchedulesInit /\ StorageAtRest /\ FetchInit /\ ApiInit
    /\ DebounceInit /\ AuthInit /\ PasswordInit /\ ConfirmAtRest

SpecSchedules == InitSchedules /\ [][NextSchedules]_vars

\* The storage of a browser that may hold tokens.
StorageInit ==
    /\ localStorage \in [staff_attendance_auth : {<<>>},
                         access_token : Opt(Tokens), refresh_token : Opt(Tokens)]
    /\ location = "/"

\* The calls of fetchWithAuth.
InitFetch ==
    /\ AttendanceAtRest /\ SchedulesInit /\ StorageInit /\ FetchInit /\ ApiInit
    /\ DebounceInit /\ AuthInit /\ PasswordInit /\ ConfirmAtRest

SpecFetchAuth == InitFetch /\ [][NextFetch]_vars

\* The calls of execute and reset of one useApi.
InitApi ==
    /\ AttendanceAtRest /\ SchedulesInit /\ StorageAtRest /\ FetchInit /\ ApiInit
    /\ DebounceInit /\ AuthInit /\ PasswordInit /\ ConfirmAtRest

SpecUseApi == InitApi /\ [][NextApi]_vars

\* useDebounce; the clock advances and a timeout that is due runs.
InitDebounce ==
    /\ AttendanceAtRest /\ SchedulesInit /\ StorageAtRest /\ FetchInit /\ ApiInit
    /\ DebounceInit /\ AuthInit /\ PasswordInit /\ ConfirmAtRest

SpecDebounce ==
    InitDebounce /\ [][NextDebounce]_vars /\ WF_vars(Tick) /\ WF_vars(TimeoutFires)

\* A browser without a session, or with a stored entry that is not JSON.
StorageBeforeLogin ==
    /\ localStorage \in
          [staff_attendance_auth : {<<>>, <<CorruptedEntry>>},
           access_token : {<<>>}, refresh_token : {<<>>}]
    /\ location = "/"

\* The session and the routes.
InitAuth ==
    /\ AttendanceAtRest /\ SchedulesInit /\ StorageBeforeLogin /\ FetchInit /\ ApiInit
    /\ DebounceInit /\ AuthInit /\ PasswordInit /\ ConfirmAtRest

SpecAuth == InitAuth /\ [][NextAuth]_vars

\* The password dialog of the settings.
InitPassword ==
    /\ AttendanceAtRest /\ SchedulesInit /\ StorageAtRest /\ FetchInit /\ ApiInit
    /\ DebounceInit /\ AuthInit /\ PasswordInit /\ ConfirmAtRest

SpecPassword == InitPassword /\ [][NextPassword]_vars

\* The confirm dialog.
InitConfirm ==
    /\ AttendanceAtRest /\ SchedulesInit /\ StorageAtRest /\ FetchInit /\ ApiInit
    /\ DebounceInit /\ AuthInit /\ PasswordInit /\ ConfirmInit

SpecConfirm == InitConfirm /\ [][NextConfirm]_vars

====
